---- MODULE Spec2Model ----
(***************************************************************************)
(* A model of llepub-saver (class EpubSaver / EpubVolume,                   *)
(* src/unnamed/part_002): the registration calls, the awaited image         *)
(* fetches of addChapter, the renderers of the package document and of the  *)
(* two tables of contents, and save().                                      *)
(*                                                                          *)
(* A JavaScript Map is a sequence of [k, v] records in insertion order: set *)
(* on an existing key replaces the value in place, set on a new key         *)
(* appends.  A JSZip archive is the same kind of ordered table.             *)
(***************************************************************************)
EXTENDS Integers, Sequences, FiniteSets, TLC

(***************************************************************************)
(* Bounds of the model.                                                     *)
(***************************************************************************)
MaxVol == 2        \* volume indices are 1..MaxVol
MaxChap == 2       \* chapter indices are 1..MaxChap
MaxImages == 2     \* a chapter is submitted only while images.size + its external imgs <= MaxImages
MaxSaves == 2      \* number of save() calls in one behaviour
MaxCalls == 2      \* addChapter calls that can be in flight together (concurrent specification)
MaxCssMap == 2     \* addCSSMap entries registered in one behaviour

VolIds == 1..MaxVol
ChapIds == 1..MaxChap
Titles == {"A", "B"}
Undefined == "undefined"
Null == "null"

(***************************************************************************)
(* JavaScript Map / JSZip file table.                                       *)
(***************************************************************************)
MapKeys(m) == [i \in 1..Len(m) |-> m[i].k]

MapHas(m, key) == \E i \in 1..Len(m) : m[i].k = key

MapGet(m, key) ==
  IF MapHas(m, key)
    THEN m[CHOOSE i \in 1..Len(m) : m[i].k = key].v
    ELSE Undefined

MapSetMovesToEnd(m, key, val) ==
  Append(SelectSeq(m, LAMBDA e : e.k /= key), [k |-> key, v |-> val])

MapSet(m, key, val) ==
  IF MapHas(m, key)
    THEN [i \in 1..Len(m) |-> IF m[i].k = key THEN [k |-> key, v |-> val] ELSE m[i]]
    ELSE Append(m, [k |-> key, v |-> val])

MapSize(m) == Len(m)

Range(s) == {s[i] : i \in 1..Len(s)}

(***************************************************************************)
(* Array.prototype.sort((a, b) => a - b) on integer keys: a stable          *)
(* insertion sort.                                                          *)
(***************************************************************************)
RECURSIVE InsertSorted(_, _)
InsertSorted(s, x) ==
  IF s = <<>> THEN <<x>>
  ELSE IF x < Head(s) THEN <<x>> \o s
  ELSE <<Head(s)>> \o InsertSorted(Tail(s), x)

RECURSIVE SortAsc(_)
SortAsc(s) ==
  IF s = <<>> THEN <<>>
  ELSE InsertSorted(SortAsc(SubSeq(s, 1, Len(s) - 1)), s[Len(s)])

\* a render pass that relies on insertion order
KeysInInsertionOrder(m) == MapKeys(m)

\* Array.from(map.keys()).sort((a, b) => a - b)
SortedKeys(m) == SortAsc(MapKeys(m))

\* template-literal interpolation ${keys[0]}: "undefined" on an empty array
FirstStr(keys) == IF keys = <<>> THEN "undefined" ELSE ToString(keys[1])

RECURSIVE Concat(_)
Concat(ss) == IF ss = <<>> THEN <<>> ELSE Head(ss) \o Concat(Tail(ss))

VARIABLES
  metadata,        \* this.metadata: Map key -> [value, options]
  volumes,         \* this.volumes: Map idx -> [title, options, chapters]
  images,          \* this.images: Map filename -> [extension, originalUrl]
  cssFiles,        \* this.cssFiles: Map idx -> [content, mappath]
  cssMap,          \* this.cssMap: Map final path -> content
  cssPathMapping,  \* this.cssPathMapping: Map original path -> final path under ../Styles/
  coverBuffer,     \* this.coverBuffer (Null, or a token for the bytes)
  coverExtension,  \* this.coverExtension
  zip,             \* this.zip: JSZip file table, name -> [content, compression]
  archive,         \* what the last completed save() returned (<<>> before)
  saveState,       \* "none" | "ok" | "threw": how the last save() call ended
  nSaves,          \* number of save() calls so far
  calls,           \* addChapter calls in flight, by call slot
  assigned,        \* history: the image filenames generated so far, in order
  lastCall,        \* the last addCSS / cover(url) / addCSSMap(url) / setInfo call and how it ended for its caller
  imports          \* addCSSMap calls waiting for their fetch, oldest first: the final path each chose

vars == <<metadata, volumes, images, cssFiles, cssMap, cssPathMapping, coverBuffer,
          coverExtension, zip, archive, saveState, nSaves, calls, assigned, lastCall,
          imports>>

(***************************************************************************)
(* Chapter markup.  A document is the sequence of its elements in document  *)
(* order; a URL is [scheme, rest, ext] so that startsWith('http://') and    *)
(* replace('http://', 'https://') are operations on the scheme.             *)
(***************************************************************************)
Url(scheme, rest, ext) == [scheme |-> scheme, rest |-> rest, ext |-> ext]
NoUrl == Url("", "", "")
Img(u) == [tag |-> "img", src |-> u]
Para == [tag |-> "p", src |-> NoUrl]
Removed == [tag |-> "removed", src |-> NoUrl]
\* an h1..h6 element of the body
Heading == [tag |-> "h1", src |-> NoUrl]
\* a stylesheet link element (link[rel="stylesheet"], link[type="text/css"]);
\* its href is a stylesheet path [dir, indexed, n, name], NoPath when absent
NoPath == [dir |-> "", indexed |-> FALSE, n |-> 0, name |-> ""]
Link(href) == [tag |-> "link", href |-> href]
\* the mark of a complete document: the content includes '<html' (or '<!DOCTYPE')
HtmlRoot == [tag |-> "html", src |-> NoUrl]

HttpA == Url("http", "example.com/a", "png")
HttpsB == Url("https", "example.com/b", "jpeg")
RelC == Url("", "pics/c", "gif")

\* the Html/Xhtml chapter contents callers submit
HtmlDocs ==
  { <<Para>>,
    <<Img(HttpA)>>,
    <<Img(HttpsB), Img(RelC)>>,
    <<Img(HttpA), Para, Img(HttpsB)>> }

TextContents == {"prose"}

\* src.startsWith('http://') || src.startsWith('https://')
IsExternal(u) == u.scheme = "http" \/ u.scheme = "https"

\* src.replace('http://', 'https://')
HttpsUpgrade(u) == [u EXCEPT !.scheme = "https"]

\* what a fetch can do: resolve ok, resolve with !response.ok, or reject
FetchOutcomes ==
  [status : {"ok", "notok", "throw"}, ctype : {"image/png", "none"}]

\* a response whose status is not ok carries no usable content type here
Outcomes == {o \in FetchOutcomes : o.status = "ok" \/ o.ctype = "none"}

\* the extension of a downloaded image
ImageExtension(ctype, u) ==
  IF ctype /= "none"
    THEN IF ctype = "image/png" THEN "png"
         ELSE IF ctype = "image/gif" THEN "gif"
         ELSE IF ctype = "image/webp" THEN "webp"
         ELSE IF ctype = "image/svg+xml" THEN "svg"
         ELSE "jpg"
    ELSE IF u.ext \in {"jpg", "jpeg", "png", "gif", "webp", "svg"} THEN u.ext
         ELSE "jpg"

\* `image_${imageCounter}.${extension}`, kept as its two parts
ImageFile(n, ext) == [n |-> n, ext |-> ext]
FileName(f) == "image_" \o ToString(f.n) \o "." \o f.ext
\* `../Images/${filename}`
LocalSrc(f) == Url("local", "../Images/" \o FileName(f), f.ext)

\* doc.querySelectorAll('img[src]') restricted to external URLs: the first
\* such element at or after position from, 0 if there is none
NextExternal(dom, from) ==
  LET S == {i \in from..Len(dom) : dom[i].tag = "img" /\ IsExternal(dom[i].src)}
  IN IF S = {} THEN 0 ELSE CHOOSE i \in S : \A j \in S : i <= j

NumExternal(dom) ==
  Cardinality({i \in 1..Len(dom) : dom[i].tag = "img" /\ IsExternal(dom[i].src)})

\* XMLSerializer / innerHTML of the processed document: removed elements are gone
Serialize(dom) == SelectSeq(dom, LAMBDA e : e.tag /= "removed")

(***************************************************************************)
(* Construction.                                                            *)
(***************************************************************************)
Meta(value, options) == [value |-> value, options |-> options]

\* the five setInfo calls of the constructor
DefaultMetadata ==
  << [k |-> "identifier", v |-> Meta("uuid-1", <<[k |-> "scheme", v |-> "uuid"]>>)],
     [k |-> "date", v |-> Meta("now", <<[k |-> "opf:event", v |-> "modification"]>>)],
     [k |-> "language", v |-> Meta("en", <<>>)],
     [k |-> "title", v |-> Meta("Untitled Book", <<>>)],
     [k |-> "creator", v |-> Meta("Unknown Author", <<>>)] >>

Pending == [status |-> "pending", ctype |-> "none"]

\* the defaults of addChapter: useGlobalCSS = false, cssIdxs = [], insertTitle = undefined
DefaultOptions == [useGlobalCSS |-> FALSE, cssIdxs |-> <<>>, insertTitle |-> Undefined]

IdleCall ==
  [pc |-> "idle", vol |-> 0, idx |-> 0, title |-> "", content |-> <<>>, opts |-> DefaultOptions,
   dom |-> <<>>, pos |-> 0, imageCounter |-> 0, finalUrl |-> NoUrl, response |-> Pending]

CallSlots == 1..MaxCalls

\* no recorded call yet
NoCall == [op |-> "none"]

Init ==
  /\ metadata = DefaultMetadata
  /\ volumes = <<>>
  /\ images = <<>>
  /\ cssFiles = <<>>
  /\ cssMap = <<>>
  /\ cssPathMapping = <<>>
  /\ coverBuffer = Null
  /\ coverExtension = Null
  /\ zip = <<>>
  /\ archive = <<>>
  /\ saveState = "none"
  /\ nSaves = 0
  /\ calls = [s \in CallSlots |-> IdleCall]
  /\ assigned = <<>>
  /\ lastCall = NoCall
  /\ imports = <<>>

InFlight == {s \in CallSlots : calls[s].pc /= "idle"}

(***************************************************************************)
(* Registration calls.                                                      *)
(***************************************************************************)
\* setInfo(key, value, options)
SetInfo(keys, values, optionSets) ==
  \E key \in keys, value \in values, options \in optionSets :
    /\ metadata' = MapSet(metadata, key, Meta(value, options))
    /\ lastCall' = [op |-> "setInfo", key |-> key, value |-> value, options |-> options]
    /\ UNCHANGED <<volumes, images, cssFiles, cssMap, cssPathMapping, coverBuffer,
                   coverExtension, zip, archive, saveState, nSaves, calls, assigned,
                   imports>>

\* new EpubVolume(idx, title, saver, options)
EpubVolume(title, alwaysShow, createPage) ==
  [title |-> title,
   options |-> [alwaysShowVolumeTitle |-> alwaysShow, createVolumePage |-> createPage],
   chapters |-> <<>>]

\* A caller adds chapters through the volume object addVolume returned; the
\* model lets addVolume replace a volume only while no call on it is in flight.
AddVolume(ids, titles, shows, pages) ==
  \E idx \in ids, title \in titles, alwaysShow \in shows, createPage \in pages :
    /\ \A s \in InFlight : calls[s].vol /= idx
    /\ volumes' = MapSet(volumes, idx, EpubVolume(title, alwaysShow, createPage))
    /\ UNCHANGED <<metadata, images, cssFiles, cssMap, cssPathMapping, coverBuffer, coverExtension, zip, archive,
                   saveState, nSaves, lastCall, calls, assigned, imports>>

Chapter(title, content, type, opts) ==
  [title |-> title, content |-> content, type |-> type, useGlobalCSS |-> opts.useGlobalCSS,
   cssIdxs |-> opts.cssIdxs, insertTitle |-> opts.insertTitle]

\* this.chapters.set(idx, {...}) on the volume stored under volIdx
StoreChapter(vols, volIdx, idx, chapter) ==
  LET vol == MapGet(vols, volIdx)
  IN MapSet(vols, volIdx, [vol EXCEPT !.chapters = MapSet(vol.chapters, idx, chapter)])

\* addChapter with type 'text': no await, the chapter is stored at once
AddChapterText(ids, titles, options) ==
  \E volIdx \in VolIds, idx \in ids, title \in titles, content \in TextContents, opts \in options :
    /\ MapHas(volumes, volIdx)
    /\ volumes' = StoreChapter(volumes, volIdx, idx, Chapter(title, content, "text", opts))
    /\ UNCHANGED <<metadata, images, cssFiles, cssMap, cssPathMapping, coverBuffer, coverExtension, zip, archive,
                   saveState, nSaves, lastCall, calls, assigned, imports>>

\* a link whose href is not registered is left as it is
KeepDanglingLink(e) == e

\* link.remove()
RemoveLink(e) == Removed

\* _processCSSLinksInContent: every stylesheet link with an href is rewritten
\* to its mapped path or removed
ProcessCSSLinksInContent(dom) ==
  [p \in 1..Len(dom) |->
     IF dom[p].tag = "link" /\ dom[p].href /= NoPath
       THEN IF MapHas(cssPathMapping, dom[p].href)
              THEN Link(MapGet(cssPathMapping, dom[p].href))
              ELSE RemoveLink(dom[p])
       ELSE dom[p]]

\* external imgs whose fetches are still to settle, over the calls in flight
PendingImages ==
  LET RECURSIVE Sum(_)
      Sum(S) == IF S = {} THEN 0
                ELSE LET t == CHOOSE x \in S : TRUE
                     IN NumExternal(calls[t].dom) + Sum(S \ {t})
  IN Sum(InFlight)

\* addChapter with type 'html'/'xhtml', up to its first await: the stylesheet
\* links are processed synchronously at the call
AddChapterHtml(limit, ids, docs, options) ==
  \E s \in CallSlots, volIdx \in VolIds, idx \in ids, doc \in docs, opts \in options :
    /\ calls[s].pc = "idle"
    /\ \A t \in CallSlots : t < s => calls[t].pc /= "idle"
    /\ Cardinality(InFlight) < limit
    /\ MapHas(volumes, volIdx)
    /\ \A t \in InFlight : ~(calls[t].vol = volIdx /\ calls[t].idx = idx)
    /\ Len(assigned) + PendingImages + NumExternal(doc) <= MaxImages
    /\ calls' = [calls EXCEPT ![s] =
         [IdleCall EXCEPT !.pc = "css", !.vol = volIdx, !.idx = idx, !.title = "A",
                          !.content = doc, !.opts = opts,
                          !.dom = ProcessCSSLinksInContent(doc)]]
    /\ UNCHANGED <<metadata, volumes, images, cssFiles, cssMap, cssPathMapping, coverBuffer,
                   coverExtension, zip, archive, saveState, nSaves, lastCall, assigned,
                   imports>>

\* the loop of _downloadImagesFromContent arriving at the external img at
\* position p (0: no more, the function returns): it issues the https probe
\* or the download and awaits it
IssueFetch(c, p) ==
  IF p = 0 THEN [c EXCEPT !.pc = "store", !.response = Pending]
  ELSE IF c.dom[p].src.scheme = "http"
    THEN [c EXCEPT !.pc = "probe", !.pos = p, !.finalUrl = c.dom[p].src, !.response = Pending]
    ELSE [c EXCEPT !.pc = "download", !.pos = p, !.finalUrl = c.dom[p].src,
                   !.response = Pending]

\* a call that counts from 0 again instead of from this.images.size
CounterRestarts(imgs) == 0

\* let imageCounter = this.images.size
InitialImageCounter(imgs) == MapSize(imgs)

\* _downloadImagesFromContent from its start to its first await
BeginDownload ==
  \E s \in CallSlots :
    /\ calls[s].pc = "css"
    /\ calls' = [calls EXCEPT ![s] =
         IssueFetch([calls[s] EXCEPT !.imageCounter = InitialImageCounter(images)],
                    NextExternal(calls[s].dom, 1))]
    /\ UNCHANGED <<metadata, volumes, images, cssFiles, cssMap, cssPathMapping, coverBuffer,
                   coverExtension, zip, archive, saveState, nSaves, lastCall, assigned,
                   imports>>

\* the network settles the fetch a call awaits: a response that is ok, a
\* response that is not, or a rejection
FetchSettles ==
  \E s \in CallSlots, o \in Outcomes :
    /\ calls[s].pc \in {"probe", "download"}
    /\ calls[s].response = Pending
    /\ calls' = [calls EXCEPT ![s].response = o]
    /\ UNCHANGED <<metadata, volumes, images, cssFiles, cssMap, cssPathMapping, coverBuffer,
                   coverExtension, zip, archive, saveState, nSaves, lastCall, assigned,
                   imports>>

\* src.replace('http://', 'https://')
UpgradedUrl(u) == HttpsUpgrade(u)

\* the continuation after await fetch(httpsUrl): finalUrl is chosen and its
\* download is issued
ProbeContinues ==
  \E s \in CallSlots :
    /\ calls[s].pc = "probe"
    /\ calls[s].response /= Pending
    /\ calls' = [calls EXCEPT ![s] =
         [@ EXCEPT !.pc = "download", !.response = Pending,
                   !.finalUrl = IF calls[s].response.status = "ok"
                                  THEN UpgradedUrl(calls[s].dom[calls[s].pos].src)
                                  ELSE calls[s].dom[calls[s].pos].src]]
    /\ UNCHANGED <<metadata, volumes, images, cssFiles, cssMap, cssPathMapping, coverBuffer,
                   coverExtension, zip, archive, saveState, nSaves, lastCall, assigned,
                   imports>>

\* a failed download that leaves the img element in place
KeepFailedImg(dom, p) == dom

\* img.remove()
RemoveImg(dom, p) == [dom EXCEPT ![p] = Removed]

\* a counter that is advanced twice for one image
CounterSkips(n) == n + 2

\* imageCounter++
AdvanceCounter(n) == n + 1

\* the continuation after await fetch(finalUrl) and await response.arrayBuffer():
\* the image is registered and the img rewritten, or the img is removed; the
\* loop goes on to the next img
DownloadContinues ==
  \E s \in CallSlots :
    LET c == calls[s]
        file == ImageFile(c.imageCounter, ImageExtension(c.response.ctype, c.finalUrl))
    IN /\ c.pc = "download"
       /\ c.response /= Pending
       /\ IF c.response.status = "ok"
            THEN /\ images' = MapSet(images, file,
                                [extension |-> file.ext, originalUrl |-> c.dom[c.pos].src])
                 /\ assigned' = Append(assigned, file)
                 /\ calls' = [calls EXCEPT ![s] =
                      IssueFetch([c EXCEPT !.imageCounter = AdvanceCounter(c.imageCounter),
                                           !.dom = [c.dom EXCEPT ![c.pos] = Img(LocalSrc(file))]],
                                 NextExternal(c.dom, c.pos + 1))]
            ELSE /\ calls' = [calls EXCEPT ![s] =
                      IssueFetch([c EXCEPT !.dom = RemoveImg(c.dom, c.pos)],
                                 NextExternal(c.dom, c.pos + 1))]
                 /\ UNCHANGED <<images, assigned>>
       /\ UNCHANGED <<metadata, volumes, cssFiles, cssMap, cssPathMapping, coverBuffer,
                      coverExtension, zip, archive, saveState, nSaves, lastCall, imports>>

\* _downloadImagesFromContent has returned: this.chapters.set(idx, {...})
StoreHtmlChapter ==
  \E s \in CallSlots :
    /\ calls[s].pc = "store"
    /\ volumes' = StoreChapter(volumes, calls[s].vol, calls[s].idx,
                               Chapter(calls[s].title, Serialize(calls[s].dom), "html",
                                       calls[s].opts))
    /\ calls' = [calls EXCEPT ![s] = IdleCall]
    /\ UNCHANGED <<metadata, images, cssFiles, cssMap, cssPathMapping, coverBuffer,
                   coverExtension, zip, archive, saveState, nSaves, lastCall, assigned,
                   imports>>

\* cover(input) with a byte buffer
CoverBuffer ==
  /\ coverBuffer' = "bytes"
  /\ coverExtension' = "jpg"
  /\ UNCHANGED <<metadata, volumes, images, cssFiles, cssMap, cssPathMapping, zip, archive, saveState, nSaves, lastCall, calls, assigned,
                 imports>>

\* a catch block that logs the failure and lets the call complete
SwallowsFailure(o) == "returned"

\* try { response = await fetch(url); if (!response.ok) throw ... } catch (error)
\* { throw new Error(...) }: how the call ends for its caller
Rethrows(o) == IF o.status = "ok" THEN "returned" ELSE "raised"

\* cover(input) with a URL, at the moment its awaited fetch settles: a failed
\* fetch raises and leaves the cover as it was
CoverUrl ==
  \E o \in Outcomes, u \in {HttpsB} :
    /\ IF o.status = "ok"
         THEN /\ coverBuffer' = "bytes"
              /\ coverExtension' =
                   IF o.ctype /= "none"
                     THEN (IF o.ctype = "image/png" THEN "png" ELSE "jpg")
                     ELSE (IF u.ext \in {"jpg", "jpeg", "png", "gif"} THEN u.ext ELSE "jpg")
         ELSE UNCHANGED <<coverBuffer, coverExtension>>
    /\ lastCall' = [op |-> "cover", fetch |-> o.status, result |-> Rethrows(o)]
    /\ UNCHANGED <<metadata, volumes, images, cssFiles, cssMap, cssPathMapping, zip, archive, saveState, nSaves, calls, assigned,
                 imports>>

(***************************************************************************)
(* Stylesheets.  A stylesheet path is [dir, indexed, n, name]: dir is       *)
(* "Styles/" or "", and the file name is style<n>.css when indexed (the     *)
(* names /^style\d+\.css$/ matches) and name otherwise.                     *)
(***************************************************************************)
CssRenameStart == 1000

CssPath(dir, indexed, n, name) == [dir |-> dir, indexed |-> indexed, n |-> n, name |-> name]
IndexedPath(dir, n) == CssPath(dir, TRUE, n, "")
NamedPath(dir, name) == CssPath(dir, FALSE, 0, name)

PathStr(p) == p.dir \o (IF p.indexed THEN "style" \o ToString(p.n) \o ".css" ELSE p.name)
\* path.replace(/[^a-zA-Z0-9]/g, '-') of a path without directory, for the
\* names the model registers: main.css and main-css
NameId(name) == IF name \in {"main.css", "main-css"} THEN "main-css" ELSE name
PathIdStr(p) == IF p.indexed THEN "style" \o ToString(p.n) \o "-css" ELSE NameId(p.name)

CssIdxs == {0, 1}
CssHints == {"", "hint"}
CssMapPaths == {IndexedPath("Styles/", 1), NamedPath("", "main.css")}

\* addCSS(idx, content, mappath); "" stands for a falsy mappath (undefined or
\* ''), which the conflict test skips
AddCSS(idxs, hints) ==
  \E idx \in idxs, mappath \in hints :
    LET conflict == /\ MapHas(cssFiles, idx)
                    /\ mappath /= ""
                    /\ MapGet(cssFiles, idx).mappath /= mappath
    IN /\ IF conflict
            THEN UNCHANGED cssFiles
            ELSE cssFiles' = MapSet(cssFiles, idx, [content |-> "css", mappath |-> mappath])
       /\ lastCall' = [op |-> "addCSS", idx |-> idx, mappath |-> mappath,
                       result |-> IF conflict THEN "raised" ELSE "returned"]
       /\ UNCHANGED <<metadata, volumes, images, cssMap, cssPathMapping, coverBuffer,
                      coverExtension, zip, archive, saveState, nSaves, calls, assigned,
                      imports>>

\* a rename that always takes the first index of the range
FirstRenameIndex(files, map) == CssRenameStart

\* let counter = 1000; while (cssFiles.has(counter) || cssMap.has(`style${counter}.css`)) counter++
FreeIndex(files, map) ==
  CHOOSE c \in CssRenameStart..(CssRenameStart + MapSize(files) + MapSize(map)) :
    /\ ~(MapHas(files, c) \/ MapHas(map, IndexedPath("", c)))
    /\ \A d \in CssRenameStart..(c - 1) : MapHas(files, d) \/ MapHas(map, IndexedPath("", d))

\* the final path addCSSMap gives an original path
FinalPath(original, files, map) ==
  LET normalized == [original EXCEPT !.dir = ""]
  IN IF normalized.indexed THEN IndexedPath("", FreeIndex(files, map)) ELSE normalized

\* addCSSMap({originalPath: content}) with literal content: no await
AddCSSMapLiteral(paths) ==
  \E original \in paths :
    LET final == FinalPath(original, cssFiles, cssMap)
    IN /\ MapSize(cssMap) < MaxCssMap
       /\ cssPathMapping' = MapSet(cssPathMapping, original, [final EXCEPT !.dir = "../Styles/"])
       /\ cssMap' = MapSet(cssMap, final, "css")
       /\ UNCHANGED <<metadata, volumes, images, cssFiles, coverBuffer, coverExtension,
                      zip, archive, saveState, nSaves, lastCall, calls, assigned,
                      imports>>

\* what the fetch of a stylesheet URL can do
CssOutcomes == {o \in Outcomes : o.ctype = "none"}

\* addCSSMap({originalPath: url}) up to its awaited fetch (lines 246-269):
\* the final path is chosen and the reverse mapping recorded before the
\* fetch; at most limit such calls wait at a time
AddCSSMapUrl(limit, paths) ==
  \E original \in paths :
    LET final == FinalPath(original, cssFiles, cssMap)
    IN /\ Len(imports) < limit
       /\ MapSize(cssMap) + Len(imports) < MaxCssMap
       /\ cssPathMapping' = MapSet(cssPathMapping, original, [final EXCEPT !.dir = "../Styles/"])
       /\ imports' = Append(imports, final)
       /\ UNCHANGED <<metadata, volumes, images, cssFiles, cssMap, coverBuffer, coverExtension,
                      zip, archive, saveState, nSaves, calls, assigned, lastCall>>

\* the fetch of a waiting addCSSMap call settles (lines 269-277): the file is
\* stored under the path chosen before the fetch, or the call raises
CssFetchSettles ==
  \E i \in 1..Len(imports), o \in CssOutcomes :
    /\ IF o.status = "ok"
         THEN cssMap' = MapSet(cssMap, imports[i], "css")
         ELSE UNCHANGED cssMap
    /\ imports' = [k \in 1..(Len(imports) - 1) |-> IF k < i THEN imports[k] ELSE imports[k + 1]]
    /\ lastCall' = [op |-> "addCSSMap", fetch |-> o.status, result |-> Rethrows(o)]
    /\ UNCHANGED <<metadata, volumes, images, cssFiles, cssPathMapping, coverBuffer,
                   coverExtension, zip, archive, saveState, nSaves, calls, assigned>>

(***************************************************************************)
(* Renderers.  A rendered document is the sequence of the elements its      *)
(* template emits, in the order the code appends them.                      *)
(***************************************************************************)
\* _t(key), for the keys and the language tables the model uses
I18n(language, key) ==
  IF language = "en"
    THEN (IF key = "cover" THEN "Cover" ELSE IF key = "chapters" THEN "Chapters"
          ELSE "Table of Contents")
    ELSE Undefined

T(key) ==
  LET language == IF MapHas(metadata, "language") THEN MapGet(metadata, "language").value ELSE "en"
  IN IF I18n(language, key) /= Undefined THEN I18n(language, key) ELSE I18n("en", key)

HasCover == coverBuffer /= Null

Item(id, href, mediaType) == [id |-> id, href |-> href, mediaType |-> mediaType]
Xhtml == "application/xhtml+xml"
\* the media type of the cover image
CoverMime(ext) == IF ext = "png" THEN "image/png" ELSE IF ext = "gif" THEN "image/gif" ELSE "image/jpeg"
\* the media type of a downloaded image
ImageMime(ext) ==
  IF ext = "png" THEN "image/png" ELSE IF ext = "gif" THEN "image/gif"
  ELSE IF ext = "webp" THEN "image/webp" ELSE IF ext = "svg" THEN "image/svg+xml"
  ELSE "image/jpeg"

VolumePageId(v) == "volume-page-" \o ToString(v)
VolumePageHref(v) == "Text/volume" \o ToString(v) \o "_index.xhtml"
ChapterId(v, c) == "chapter-" \o ToString(v) \o "-" \o ToString(c)
\* `Text/volume${volIdx}_chapter${chapIdx}.xhtml`, chapIdx already interpolated
ChapterHrefStr(v, cstr) == "Text/volume" \o ToString(v) \o "_chapter" \o cstr \o ".xhtml"
ChapterHref(v, c) == ChapterHrefStr(v, ToString(c))
ImageId(f) == "img-image-" \o ToString(f.n) \o "-" \o f.ext

\* the metadata block of content.opf
OpfMetadata ==
  [i \in 1..Len(metadata) |->
     [tag |-> "dc:" \o metadata[i].k, attrs |-> metadata[i].v.options,
      text |-> metadata[i].v.value]]
  \o (IF HasCover
        THEN <<[tag |-> "meta",
                attrs |-> <<[k |-> "name", v |-> "cover"], [k |-> "content", v |-> "cover-image"]>>,
                text |-> ""]>>
        ELSE <<>>)

\* the manifest and spine entries one volume contributes
OpfVolumeManifest(volIdx) ==
  LET volume == MapGet(volumes, volIdx)
      chaps == SortedKeys(volume.chapters)
  IN (IF volume.options.createVolumePage
        THEN <<Item(VolumePageId(volIdx), VolumePageHref(volIdx), Xhtml)>> ELSE <<>>)
     \o [i \in 1..Len(chaps) |-> Item(ChapterId(volIdx, chaps[i]), ChapterHref(volIdx, chaps[i]), Xhtml)]

\* a spine that takes up every manifest entry written so far, images included
SpineWithImages(volIdx) ==
  LET items == OpfVolumeManifest(volIdx)
  IN [i \in 1..Len(images) |-> ImageId(images[i].k)]
     \o [i \in 1..Len(items) |-> items[i].id]

OpfVolumeSpine(volIdx) ==
  LET items == OpfVolumeManifest(volIdx)
  IN [i \in 1..Len(items) |-> items[i].id]

OpfManifest ==
  LET vols == SortedKeys(volumes)
  IN <<Item("ncx", "toc.ncx", "application/x-dtbncx+xml"), Item("nav", "nav.xhtml", Xhtml)>>
     \o (IF HasCover
           THEN <<Item("cover-image", "Images/cover." \o coverExtension, CoverMime(coverExtension)),
                  Item("cover", "Text/cover.xhtml", Xhtml)>>
           ELSE <<>>)
     \o [i \in 1..Len(images) |-> Item(ImageId(images[i].k), "Images/" \o FileName(images[i].k),
                                      ImageMime(images[i].v.extension))]
     \o [i \in 1..Len(cssFiles) |->
           Item("css" \o ToString(cssFiles[i].k),
                "Styles/style" \o ToString(cssFiles[i].k) \o ".css", "text/css")]
     \o [i \in 1..Len(cssMap) |->
           Item("css-map-" \o PathIdStr(cssMap[i].k), "Styles/" \o PathStr(cssMap[i].k), "text/css")]
     \o Concat([i \in 1..Len(vols) |-> OpfVolumeManifest(vols[i])])

OpfSpine ==
  LET vols == SortedKeys(volumes)
  IN (IF HasCover THEN <<"cover">> ELSE <<>>)
     \o Concat([i \in 1..Len(vols) |-> OpfVolumeSpine(vols[i])])

\* _generateContentOpf()
GenerateContentOpf ==
  [metadata |-> OpfMetadata, manifest |-> OpfManifest, spine |-> OpfSpine]

(***************************************************************************)
(* _generateChapterXhtml.  A rendered chapter is the stylesheet indices its *)
(* head links to, in order, and the elements of its body.                   *)
(***************************************************************************)
\* the values of insertTitle besides undefined
Always == "true"
Never == "false"

\* the h2 the Html branches insert and the h1 of the text template
GeneratedHeading == [tag |-> "h2", src |-> NoUrl]
TextHeading == [tag |-> "h1", src |-> NoUrl]

\* parseFromString(content, 'application/xhtml+xml') yields no parsererror: a
\* complete document was serialized by XMLSerializer and is well-formed; a
\* fragment (body.innerHTML) is well-formed only as a single element that is
\* not a void element written without its closing slash
ParsesAsXhtml(content) ==
  /\ content /= <<>>
  /\ \/ content[1] = HtmlRoot
     \/ Len(content) = 1 /\ content[1].tag \in {"p", "h1"}

\* body.querySelector('h1, h2, h3, h4, h5, h6')
ExistingHeading(content) == \E p \in 1..Len(content) : content[p] = Heading

RECURSIVE HtmlCssLinks(_, _)
\* lines 863-877 and 942-956: a link for each registered index of cssIdxs the
\* head does not link to yet
HtmlCssLinks(links, idxs) ==
  IF idxs = <<>> THEN links
  ELSE HtmlCssLinks(IF MapHas(cssFiles, Head(idxs)) /\ Head(idxs) \notin Range(links)
                      THEN Append(links, Head(idxs)) ELSE links,
                    Tail(idxs))

\* lines 995-1001: a link for each registered index of cssIdxs other than 0
TextCssLinks(idxs) ==
  SelectSeq(idxs, LAMBDA idx : MapHas(cssFiles, idx) /\ idx /= 0)

\* chapter.useGlobalCSS && this.cssFiles.has(0)
GlobalCssLink(chapter) ==
  IF chapter.useGlobalCSS /\ MapHas(cssFiles, 0) THEN <<0>> ELSE <<>>

\* line 881 (lenient branch) and line 960 (strict branch), then lines 883 / 962
InsertsHeading(chapter, strict) ==
  /\ IF strict
       THEN chapter.insertTitle = Undefined /\ chapter.insertTitle = Always
       ELSE chapter.insertTitle = Undefined \/ chapter.insertTitle = Always
  /\ ~ExistingHeading(chapter.content) \/ chapter.insertTitle = Always

GenerateChapterXhtml(chapter) ==
  IF chapter.type = "html"
    THEN [links |-> HtmlCssLinks(GlobalCssLink(chapter), chapter.cssIdxs),
          body |-> (IF InsertsHeading(chapter, ParsesAsXhtml(chapter.content))
                      THEN <<GeneratedHeading>> ELSE <<>>) \o chapter.content]
    ELSE [links |-> GlobalCssLink(chapter) \o TextCssLinks(chapter.cssIdxs),
          body |-> <<TextHeading, Para>>]

(***************************************************************************)
(* The two tables of contents, as the tags their templates emit.            *)
(***************************************************************************)
NavPointOpen(id, label, src) == [t |-> "navPoint", id |-> id, label |-> label, href |-> src]
NavPointClose == [t |-> "/navPoint", id |-> "", label |-> "", href |-> ""]

Rendered(tokens) == [throws |-> FALSE, tokens |-> tokens]
\* a TypeError raised while the template is evaluated
Throws == [throws |-> TRUE, tokens |-> <<>>]

VolumeNavId(v) == "volume-" \o ToString(v)

\* the nested navPoints of the chapters of a volume, in ascending index order
NcxChapterPoints(volIdx, volume) ==
  LET chaps == SortedKeys(volume.chapters)
  IN Concat([i \in 1..Len(chaps) |->
       <<NavPointOpen(ChapterId(volIdx, chaps[i]), MapGet(volume.chapters, chaps[i]).title,
                      ChapterHref(volIdx, chaps[i])),
         NavPointClose>>])

\* navPoints.slice(0, -12): drops the trailing "</navPoint>\n"
DropLastClose(tokens) == SubSeq(tokens, 1, Len(tokens) - 1)

\* a legacy map that nests the chapters of every volume
NcxVolumeAlwaysNested(volIdx) ==
  LET volume == MapGet(volumes, volIdx)
  IN Rendered(<<NavPointOpen(VolumeNavId(volIdx), volume.title,
                  IF volume.options.createVolumePage THEN VolumePageHref(volIdx)
                  ELSE ChapterHrefStr(volIdx, FirstStr(SortedKeys(volume.chapters))))>>
              \o NcxChapterPoints(volIdx, volume) \o <<NavPointClose>>)

\* one iteration of the volume loop of _generateTocNcx
NcxVolume(volIdx) ==
  LET volume == MapGet(volumes, volIdx)
  IN IF MapSize(volume.chapters) > 1 \/ volume.options.alwaysShowVolumeTitle
       THEN LET volumeLink ==
                  IF volume.options.createVolumePage THEN VolumePageHref(volIdx)
                  ELSE ChapterHrefStr(volIdx, FirstStr(SortedKeys(volume.chapters)))
            IN Rendered(<<NavPointOpen(VolumeNavId(volIdx), volume.title, volumeLink)>>
                        \o NcxChapterPoints(volIdx, volume)
                        \o <<NavPointClose>>)
       ELSE LET keys == MapKeys(volume.chapters)
                volumeLink ==
                  IF volume.options.createVolumePage THEN VolumePageHref(volIdx)
                  ELSE ChapterHrefStr(volIdx, FirstStr(keys))
                flat == <<NavPointOpen(VolumeNavId(volIdx), volume.title, volumeLink),
                          NavPointClose>>
            IN IF volume.options.createVolumePage
                 THEN IF keys = <<>>
                        THEN Throws   \* chapter is undefined: chapter.title raises
                        ELSE Rendered(DropLastClose(flat)
                               \o <<NavPointOpen(ChapterId(volIdx, keys[1]),
                                                 MapGet(volume.chapters, keys[1]).title,
                                                 ChapterHref(volIdx, keys[1])),
                                    NavPointClose, NavPointClose>>)
                 ELSE Rendered(flat)

\* the concatenation of the volumes' fragments; a raise ends the rendering
RenderVolumes(frags) ==
  IF \E i \in 1..Len(frags) : frags[i].throws THEN Throws
  ELSE Rendered(Concat([i \in 1..Len(frags) |-> frags[i].tokens]))

\* _generateTocNcx(): the navMap
GenerateTocNcx ==
  LET body == LET vols == SortedKeys(volumes)
              IN RenderVolumes([i \in 1..Len(vols) |-> NcxVolume(vols[i])])
      cover == IF HasCover
                 THEN <<NavPointOpen("cover", T("cover"), "Text/cover.xhtml"), NavPointClose>>
                 ELSE <<>>
  IN IF body.throws THEN Throws ELSE Rendered(cover \o body.tokens)

\* what crypto.randomUUID() can return: some UUID, never the empty string
RandomUUIDs == {"uuid-r1", "uuid-r2"}

\* line 588 and line 647: the dtb:uid of toc.ncx, where fresh is what
\* crypto.randomUUID() returns when the identifier is missing or falsy
NcxUid(fresh) ==
  IF MapHas(metadata, "identifier") /\ MapGet(metadata, "identifier").value /= ""
    THEN MapGet(metadata, "identifier").value
    ELSE fresh

NavTag(t) == [t |-> t, label |-> "", href |-> ""]
NavA(href, label) == [t |-> "a", label |-> label, href |-> href]
NavLeaf(href, label) == <<NavTag("li"), NavA(href, label), NavTag("/li")>>

NavChapterItems(volIdx, volume) ==
  LET chaps == SortedKeys(volume.chapters)
  IN Concat([i \in 1..Len(chaps) |->
       NavLeaf(ChapterHref(volIdx, chaps[i]), MapGet(volume.chapters, chaps[i]).title)])

\* a navigation page whose flat entry carries the chapter's title
NavSingleChapterTitle(volIdx) ==
  LET volume == MapGet(volumes, volIdx)
      keys == MapKeys(volume.chapters)
  IN IF keys = <<>>
       THEN IF volume.options.createVolumePage THEN Throws
            ELSE Rendered(NavLeaf(ChapterHrefStr(volIdx, FirstStr(keys)), volume.title))
       ELSE IF volume.options.createVolumePage
         THEN Rendered(<<NavTag("li"), NavA(VolumePageHref(volIdx), volume.title), NavTag("ol")>>
                \o NavLeaf(ChapterHref(volIdx, keys[1]), MapGet(volume.chapters, keys[1]).title)
                \o <<NavTag("/ol"), NavTag("/li")>>)
         ELSE Rendered(NavLeaf(ChapterHref(volIdx, keys[1]),
                               MapGet(volume.chapters, keys[1]).title))

\* the else branch of the volume loop of _generateNavXhtml (lines 682-698)
NavSingle(volIdx) ==
  LET volume == MapGet(volumes, volIdx)
      keys == MapKeys(volume.chapters)
      volumeLink ==
        IF volume.options.createVolumePage THEN VolumePageHref(volIdx)
        ELSE ChapterHrefStr(volIdx, FirstStr(keys))
  IN IF volume.options.createVolumePage
       THEN IF keys = <<>>
              THEN Throws   \* chapter is undefined: chapter.title raises
              ELSE Rendered(<<NavTag("li"), NavA(volumeLink, volume.title), NavTag("ol")>>
                     \o NavLeaf(ChapterHref(volIdx, keys[1]),
                                MapGet(volume.chapters, keys[1]).title)
                     \o <<NavTag("/ol"), NavTag("/li")>>)
       ELSE Rendered(NavLeaf(volumeLink, volume.title))

\* one iteration of the volume loop of _generateNavXhtml
NavVolume(volIdx) ==
  LET volume == MapGet(volumes, volIdx)
  IN IF MapSize(volume.chapters) > 1 \/ volume.options.alwaysShowVolumeTitle
       THEN LET volumeLink ==
                  IF volume.options.createVolumePage THEN VolumePageHref(volIdx)
                  ELSE ChapterHrefStr(volIdx, FirstStr(SortedKeys(volume.chapters)))
            IN Rendered(<<NavTag("li"), NavA(volumeLink, volume.title), NavTag("ol")>>
                        \o NavChapterItems(volIdx, volume)
                        \o <<NavTag("/ol"), NavTag("/li")>>)
       ELSE NavSingle(volIdx)

\* _generateNavXhtml(): the items of the toc list
GenerateNavXhtml ==
  LET body == LET vols == SortedKeys(volumes)
              IN RenderVolumes([i \in 1..Len(vols) |-> NavVolume(vols[i])])
      cover == IF HasCover THEN NavLeaf("Text/cover.xhtml", T("cover")) ELSE <<>>
  IN IF body.throws THEN Throws ELSE Rendered(cover \o body.tokens)

(***************************************************************************)
(* The hierarchy a table of contents describes: its entries in document     *)
(* order, each with its nesting depth, label and link target.               *)
(***************************************************************************)
Entry(depth, label, href) == [depth |-> depth, label |-> label, href |-> href]

RECURSIVE NcxEntriesFrom(_, _)
NcxEntriesFrom(tokens, depth) ==
  IF tokens = <<>> THEN <<>>
  ELSE IF Head(tokens).t = "navPoint"
    THEN <<Entry(depth, Head(tokens).label, Head(tokens).href)>>
         \o NcxEntriesFrom(Tail(tokens), depth + 1)
    ELSE NcxEntriesFrom(Tail(tokens), depth - 1)

NcxEntries(tokens) == NcxEntriesFrom(tokens, 0)

RECURSIVE NavEntriesFrom(_, _)
NavEntriesFrom(tokens, depth) ==
  IF tokens = <<>> THEN <<>>
  ELSE IF Head(tokens).t = "a"
    THEN <<Entry(depth, Head(tokens).label, Head(tokens).href)>>
         \o NavEntriesFrom(Tail(tokens), depth)
  ELSE IF Head(tokens).t = "ol" THEN NavEntriesFrom(Tail(tokens), depth + 1)
  ELSE IF Head(tokens).t = "/ol" THEN NavEntriesFrom(Tail(tokens), depth - 1)
  ELSE NavEntriesFrom(Tail(tokens), depth)

NavEntries(tokens) == NavEntriesFrom(tokens, 0)

(***************************************************************************)
(* save(): the zip.file calls in the order the code makes them.  A raise    *)
(* in a renderer ends the call there, with the entries written so far.      *)
(***************************************************************************)
File(name, content, compression) ==
  [k |-> name, v |-> [content |-> content, compression |-> compression]]

RECURSIVE ZipFiles(_, _)
\* zip.file(name, content, options) for each entry of files, in order
ZipFiles(z, files) ==
  IF files = <<>> THEN z
  ELSE ZipFiles(MapSet(z, Head(files).k, Head(files).v), Tail(files))

Deflate(name, content) == File(name, content, "DEFLATE")
Folder(name) == File(name, "dir", "none")

\* a writer that puts the container descriptor in front of the mimetype marker
MimetypeAfterContainer ==
  <<Deflate("META-INF/container.xml", "container"),
    File("mimetype", "application/epub+zip", "STORE"),
    Folder("META-INF/"), Folder("OEBPS/"), Folder("OEBPS/Text/"),
    Folder("OEBPS/Styles/"), Folder("OEBPS/Images/")>>

\* lines 1024-1044: mimetype, the directory skeleton, container.xml
SaveHead ==
  <<File("mimetype", "application/epub+zip", "STORE"),
    Folder("META-INF/"), Folder("OEBPS/"), Folder("OEBPS/Text/"),
    Folder("OEBPS/Styles/"), Folder("OEBPS/Images/"),
    Deflate("META-INF/container.xml", "container")>>

\* a writer that skips the cover page
SaveCoverImageOnly ==
  IF HasCover
    THEN <<Deflate("OEBPS/Images/cover." \o coverExtension, "cover-bytes")>>
    ELSE <<>>

\* lines 1051-1055
SaveCover ==
  IF HasCover
    THEN <<Deflate("OEBPS/Images/cover." \o coverExtension, "cover-bytes"),
           Deflate("OEBPS/Text/cover.xhtml", "cover-page")>>
    ELSE <<>>

\* lines 1057-1070: images, indexed stylesheets, stylesheet-map files
SaveAssets ==
  [i \in 1..Len(images) |-> Deflate("OEBPS/Images/" \o FileName(images[i].k), "image-bytes")]
  \o [i \in 1..Len(cssFiles) |->
        Deflate("OEBPS/Styles/style" \o ToString(cssFiles[i].k) \o ".css", cssFiles[i].v.content)]
  \o [i \in 1..Len(cssMap) |-> Deflate("OEBPS/Styles/" \o PathStr(cssMap[i].k), cssMap[i].v)]

\* lines 1072-1089: volume pages and chapters
SaveVolume(volIdx) ==
  LET volume == MapGet(volumes, volIdx)
      chaps == SortedKeys(volume.chapters)
  IN (IF volume.options.createVolumePage
        THEN <<Deflate("OEBPS/" \o VolumePageHref(volIdx), "volume-page")>> ELSE <<>>)
     \o [i \in 1..Len(chaps) |->
           Deflate("OEBPS/" \o ChapterHref(volIdx, chaps[i]),
                   GenerateChapterXhtml(MapGet(volume.chapters, chaps[i])))]

\* a writer that leaves the chapter files as an earlier save() wrote them
SaveTextKept == <<>>

SaveText ==
  LET vols == SortedKeys(volumes)
  IN Concat([i \in 1..Len(vols) |-> SaveVolume(vols[i])])

Save ==
  /\ nSaves < MaxSaves
  /\ nSaves' = nSaves + 1
  /\ LET opf == GenerateContentOpf
         ncx == GenerateTocNcx
         nav == GenerateNavXhtml
         z1 == ZipFiles(zip, SaveHead \o <<Deflate("OEBPS/content.opf", opf)>>)
         z2 == ZipFiles(z1, <<Deflate("OEBPS/toc.ncx", ncx.tokens)>>)
         z3 == ZipFiles(z2, <<Deflate("OEBPS/nav.xhtml", nav.tokens)>>
                            \o SaveCover \o SaveAssets \o SaveText)
     IN IF ncx.throws
          THEN /\ zip' = z1
               /\ saveState' = "threw"
               /\ UNCHANGED archive
          ELSE IF nav.throws
            THEN /\ zip' = z2
                 /\ saveState' = "threw"
                 /\ UNCHANGED archive
            ELSE /\ zip' = z3
                 /\ saveState' = "ok"
                 /\ archive' = z3
  /\ UNCHANGED <<metadata, volumes, images, cssFiles, cssMap, cssPathMapping, coverBuffer,
                 coverExtension, calls, assigned, lastCall, imports>>

(***************************************************************************)
(* Specifications.  In all but SpecConc, SpecCssConc and SpecFrozen every   *)
(* call is awaited before the next one is made.                             *)
(*   SpecToc   volumes, chapters and cover in every insertion order         *)
(*   SpecPkg   every kind of manifest entry: cover, images, stylesheets,    *)
(*             volume pages, chapters                                       *)
(*   SpecSave  registration calls and save() calls in any order             *)
(*   Spec      the image pipeline of addChapter, one call in flight         *)
(*   SpecConc  up to MaxCalls addChapter calls in flight, their             *)
(*             continuations interleaving at the awaited fetches            *)
(*   SpecCss   addCSS, addCSSMap and cover(url) calls in any order          *)
(*   SpecLink  stylesheet registrations and Html chapters with links        *)
(*   SpecRender  chapters of both kinds with every option, for the chapter  *)
(*             renderer                                                     *)
(*   SpecMeta  setInfo calls                                                *)
(*   SpecCssConc  up to MaxCalls addCSSMap calls waiting for their fetch    *)
(*   SpecFrozen  save() calls while an addChapter call is in flight         *)
(***************************************************************************)
Quiet == InFlight = {} /\ imports = <<>>

NextToc ==
  \/ AddVolume(VolIds, Titles, BOOLEAN, BOOLEAN)
  \/ AddChapterText(ChapIds, Titles, {DefaultOptions})
  \/ CoverBuffer

SpecToc == Init /\ [][NextToc]_vars

NextPkg ==
  \/ Quiet /\ AddVolume(VolIds, {"A"}, {FALSE}, BOOLEAN)
  \/ Quiet /\ AddChapterText({1}, {"A"}, {DefaultOptions})
  \/ AddChapterHtml(1, {1}, {<<Img(HttpA)>>}, {DefaultOptions})
  \/ BeginDownload
  \/ FetchSettles
  \/ ProbeContinues
  \/ DownloadContinues
  \/ StoreHtmlChapter
  \/ Quiet /\ CoverBuffer
  \/ Quiet /\ AddCSS(CssIdxs, {""})
  \/ Quiet /\ AddCSSMapLiteral(CssMapPaths)

SpecPkg == Init /\ [][NextPkg]_vars

Next ==
  \/ Quiet /\ AddVolume(VolIds, {"A"}, {FALSE}, {FALSE})
  \/ AddChapterHtml(1, {1}, HtmlDocs, {DefaultOptions})
  \/ BeginDownload
  \/ FetchSettles
  \/ ProbeContinues
  \/ DownloadContinues
  \/ StoreHtmlChapter

Spec == Init /\ [][Next]_vars

NextSave ==
  \/ Quiet /\ AddVolume({1}, {"A"}, BOOLEAN, BOOLEAN)
  \/ Quiet /\ AddChapterText({1}, {"A"}, {DefaultOptions})
  \/ Quiet /\ CoverBuffer
  \/ Quiet /\ CoverUrl
  \/ Quiet /\ AddCSSMapLiteral({NamedPath("", "main.css")})
  \/ Quiet /\ Save

SpecSave == Init /\ [][NextSave]_vars

NextConc ==
  \/ AddVolume(VolIds, {"A"}, {FALSE}, {FALSE})
  \/ AddChapterHtml(MaxCalls, {1}, {<<Img(HttpA)>>, <<Img(HttpsB), Img(RelC)>>}, {DefaultOptions})
  \/ BeginDownload
  \/ FetchSettles
  \/ ProbeContinues
  \/ DownloadContinues
  \/ StoreHtmlChapter

SpecConc == Init /\ [][NextConc]_vars

\* the original paths handed to addCSSMap: style1.css and main.css, each with
\* and without the leading "Styles/"
CssOriginals ==
  {IndexedPath("", 1), IndexedPath("Styles/", 1), NamedPath("", "main.css"),
   NamedPath("Styles/", "main.css")}

NextCss ==
  \/ Quiet /\ AddCSS({1, CssRenameStart}, CssHints)
  \/ Quiet /\ AddCSSMapLiteral(CssOriginals)
  \/ AddCSSMapUrl(1, {IndexedPath("", 1), NamedPath("", "main-css")})
  \/ CssFetchSettles
  \/ Quiet /\ CoverUrl

SpecCss == Init /\ [][NextCss]_vars

\* Html chapter contents with stylesheet links: to style1.css, Styles/style1.css,
\* Styles/main.css, a path nobody registers, and a link without href
LinkDocs ==
  { <<Link(IndexedPath("", 1)), Para>>,
    <<Link(NamedPath("Styles/", "main.css")), Link(NamedPath("", "other.css"))>>,
    <<Link(NoPath), Link(IndexedPath("Styles/", 1))>> }

NextLink ==
  \/ Quiet /\ AddVolume({1}, {"A"}, {FALSE}, {FALSE})
  \/ Quiet /\ AddCSS({CssRenameStart}, {""})
  \/ Quiet /\ AddCSSMapLiteral(CssOriginals)
  \/ Quiet /\ AddCSSMapUrl(1, {IndexedPath("Styles/", 1)})
  \/ CssFetchSettles
  \/ Quiet /\ AddChapterHtml(1, ChapIds, LinkDocs, {DefaultOptions})
  \/ BeginDownload
  \/ StoreHtmlChapter

SpecLink == Init /\ [][NextLink]_vars

\* Html chapter contents for the renderer: fragments and complete documents,
\* with and without a heading
RenderDocs ==
  { <<Para>>, <<Heading>>, <<Para, Para>>, <<Heading, Para>>,
    <<HtmlRoot, Para>>, <<HtmlRoot, Heading, Para>> }

RenderOptions ==
  [useGlobalCSS : BOOLEAN, cssIdxs : {<<>>, <<0>>, <<1, 0>>},
   insertTitle : {Undefined, Always, Never}]

NextRender ==
  \/ Quiet /\ AddVolume({1}, {"A"}, {FALSE}, {FALSE})
  \/ Quiet /\ AddCSS(CssIdxs, {""})
  \/ Quiet /\ AddChapterText({1}, {"A"}, RenderOptions)
  \/ AddChapterHtml(1, {1}, RenderDocs, RenderOptions)
  \/ BeginDownload
  \/ StoreHtmlChapter

SpecRender == Init /\ [][NextRender]_vars

\* the keys, values and attribute sets handed to setInfo
MetaKeys == {"identifier", "title", "subject"}
MetaValues == {"", "v1", "v2"}
MetaOptions == {<<>>, <<[k |-> "id", v |-> "BookId"]>>}

NextMeta ==
  \/ SetInfo(MetaKeys, MetaValues, MetaOptions)
  \/ CoverBuffer

SpecMeta == Init /\ [][NextMeta]_vars

NextCssConc ==
  \/ AddCSS({CssRenameStart}, {""})
  \/ AddCSSMapUrl(MaxCalls, {IndexedPath("", 1), IndexedPath("", 2)})
  \/ CssFetchSettles

SpecCssConc == Init /\ [][NextCssConc]_vars

NextFrozen ==
  \/ AddVolume({1}, {"A"}, {FALSE}, {FALSE})
  \/ SetInfo({"title"}, {"v1"}, {<<>>})
  \/ AddChapterHtml(1, ChapIds, {<<Img(HttpsB)>>}, {DefaultOptions})
  \/ BeginDownload
  \/ FetchSettles
  \/ DownloadContinues
  \/ StoreHtmlChapter
  \/ Save

SpecFrozen == Init /\ [][NextFrozen]_vars

(***************************************************************************)
(* Properties.                                                              *)
(***************************************************************************)
MimetypeEntry == File("mimetype", "application/epub+zip", "STORE")

\* C1: once save() has been called, after any registration calls and any
\* earlier save(), the first entry of the zip table and of the returned
\* archive is "mimetype", holds "application/epub+zip" and is stored
\* uncompressed; nothing precedes it.
C1_MimetypeFirst ==
  /\ nSaves > 0 => zip /= <<>>
  /\ zip /= <<>> => zip[1] = MimetypeEntry
  /\ archive /= <<>> => archive[1] = MimetypeEntry

C1_Witness ==
  /\ nSaves = MaxSaves
  /\ saveState = "ok"
  /\ HasCover
  /\ cssMap /= <<>>
  /\ MapHas(archive, "OEBPS/Text/volume1_chapter1.xhtml")

ImageAndStyleTypes ==
  {"text/css", "image/png", "image/jpeg", "image/gif", "image/webp", "image/svg+xml"}

\* C2: in the package document every spine itemref names exactly one
\* manifest item, and no stylesheet or image item of the manifest is named
\* by the spine.
C2_SpineRefersToManifest ==
  LET opf == GenerateContentOpf
      ItemsWithId(id) == {j \in 1..Len(opf.manifest) : opf.manifest[j].id = id}
  IN /\ \A i \in 1..Len(opf.spine) : Cardinality(ItemsWithId(opf.spine[i])) = 1
     /\ \A j \in 1..Len(opf.manifest) :
          opf.manifest[j].mediaType \in ImageAndStyleTypes
            => opf.manifest[j].id \notin Range(opf.spine)

C2_Witness ==
  /\ images /= <<>>
  /\ cssFiles /= <<>>
  /\ cssMap /= <<>>
  /\ HasCover
  /\ Len(OpfSpine) >= 4

\* the indices below bound that are keys of m, ascending, found by scanning
\* the index range (no sort, no insertion order)
PresentAscending(m, bound) ==
  Concat([k \in 1..bound |-> IF MapHas(m, k) THEN <<k>> ELSE <<>>])

ExpectedVolumeSpine(volIdx) ==
  LET volume == MapGet(volumes, volIdx)
      chaps == PresentAscending(volume.chapters, MaxChap)
  IN (IF volume.options.createVolumePage THEN <<VolumePageId(volIdx)>> ELSE <<>>)
     \o [i \in 1..Len(chaps) |-> ChapterId(volIdx, chaps[i])]

ExpectedSpine ==
  LET vols == PresentAscending(volumes, MaxVol)
  IN (IF HasCover THEN <<"cover">> ELSE <<>>)
     \o Concat([i \in 1..Len(vols) |-> ExpectedVolumeSpine(vols[i])])

\* C3: whatever the order of insertion, the spine is the cover page (if a
\* cover is set), then for each volume in ascending index its page (if
\* createVolumePage) and its chapters in ascending index: it is a function
\* of which volumes and chapters exist, not of when they were inserted.
C3_SpineAscending == OpfSpine = ExpectedSpine

C3_Witness ==
  /\ MapKeys(volumes) = <<2, 1>>
  /\ MapKeys(MapGet(volumes, 1).chapters) = <<2, 1>>
  /\ MapGet(volumes, 1).options.createVolumePage
  /\ MapGet(volumes, 2).chapters /= <<>>
  /\ HasCover

\* C4: the legacy navigation map and the navigation page describe the same
\* hierarchy: the same entries in the same order with the same depth, label
\* and link target (and one raises exactly when the other does).
C4_TocsAgree ==
  LET ncx == GenerateTocNcx
      nav == GenerateNavXhtml
  IN /\ ncx.throws = nav.throws
     /\ NcxEntries(ncx.tokens) = NavEntries(nav.tokens)

C4_Witness ==
  LET entries == NcxEntries(GenerateTocNcx.tokens)
  IN /\ HasCover
     /\ Len(volumes) = 2
     /\ Len(entries) >= 5
     /\ \E i \in 1..Len(entries) : entries[i].depth = 1
     /\ \E v \in VolIds : MapHas(volumes, v) /\ Len(NcxEntries(NcxVolume(v).tokens)) = 1

\* the entries C5 prescribes for a volume that has at least one chapter
VolumeEntriesAsClaimed(volIdx, entries) ==
  LET volume == MapGet(volumes, volIdx)
      chaps == PresentAscending(volume.chapters, MaxChap)
      nested == [i \in 1..Len(chaps) |->
                   Entry(1, MapGet(volume.chapters, chaps[i]).title, ChapterHref(volIdx, chaps[i]))]
  IN IF Len(chaps) > 1 \/ volume.options.alwaysShowVolumeTitle
       THEN /\ entries /= <<>>
            /\ Head(entries).depth = 0
            /\ Head(entries).label = volume.title
            /\ Tail(entries) = nested
       ELSE IF ~volume.options.createVolumePage
         THEN entries = <<Entry(0, volume.title, ChapterHref(volIdx, chaps[1]))>>
         ELSE entries = <<Entry(0, volume.title, VolumePageHref(volIdx))>> \o nested

\* C5: in both tables of contents a volume with more than one chapter or
\* with alwaysShowVolumeTitle is a parent entry with its chapters nested
\* below; a volume with one chapter, alwaysShowVolumeTitle=false and
\* createVolumePage=false is one flat entry with the volume's title linking
\* to the chapter's file; with createVolumePage=true that entry links to the
\* volume page and the chapter is nested one level below.
C5_VolumeEntryShape ==
  \A v \in VolIds :
    MapHas(volumes, v) /\ MapGet(volumes, v).chapters /= <<>>
      => /\ ~NcxVolume(v).throws
         /\ ~NavVolume(v).throws
         /\ VolumeEntriesAsClaimed(v, NcxEntries(NcxVolume(v).tokens))
         /\ VolumeEntriesAsClaimed(v, NavEntries(NavVolume(v).tokens))

C5_Witness ==
  \E v, w \in VolIds :
    /\ MapHas(volumes, v) /\ MapHas(volumes, w)
    /\ Len(MapGet(volumes, v).chapters) = 1
    /\ ~MapGet(volumes, v).options.alwaysShowVolumeTitle
    /\ ~MapGet(volumes, v).options.createVolumePage
    /\ Len(MapGet(volumes, w).chapters) = 1
    /\ ~MapGet(volumes, w).options.alwaysShowVolumeTitle
    /\ MapGet(volumes, w).options.createVolumePage

CoverExtensions == {"jpg", "jpeg", "png", "gif"}

\* where an archive shows a cover: the two archive entries, the two manifest
\* items, the spine itemref, the cover meta element, the entry of each table
\* of contents; the set of the truth values found
CoverSigns(a) ==
  LET opf == MapGet(a, "OEBPS/content.opf").content
      ncx == MapGet(a, "OEBPS/toc.ncx").content
      nav == MapGet(a, "OEBPS/nav.xhtml").content
  IN { \E e \in CoverExtensions : MapHas(a, "OEBPS/Images/cover." \o e),
       MapHas(a, "OEBPS/Text/cover.xhtml"),
       \E j \in 1..Len(opf.manifest) : opf.manifest[j].id = "cover-image",
       \E j \in 1..Len(opf.manifest) : opf.manifest[j].id = "cover",
       "cover" \in Range(opf.spine),
       \E j \in 1..Len(opf.metadata) : opf.metadata[j].tag = "meta",
       \E j \in 1..Len(ncx) : ncx[j].id = "cover",
       \E j \in 1..Len(nav) : nav[j].href = "Text/cover.xhtml" }

\* C6: every archive save() returns shows the cover in all of these places
\* when a cover has been set and in none of them when none has been set.
C6_CoverAllOrNothing ==
  [][archive' /= archive => CoverSigns(archive') = {HasCover'}]_vars

C6_Witness ==
  /\ nSaves = MaxSaves
  /\ archive /= <<>>
  /\ CoverSigns(archive) = {TRUE}
  /\ coverExtension = "png"

\* C7: with addChapter calls fully sequenced, the number in each generated
\* image filename is greater than every number generated before, in whatever
\* chapter or volume, and no generated filename replaces an earlier one.
C7_FilenamesIncrease ==
  /\ \A i, j \in 1..Len(assigned) : i < j => assigned[i].n < assigned[j].n
  /\ MapKeys(images) = assigned

\* the html chapter stored under (v, c) holds an img that points to file f
ChapterShows(v, c, f) ==
  /\ MapHas(volumes, v)
  /\ MapHas(MapGet(volumes, v).chapters, c)
  /\ Img(LocalSrc(f)) \in Range(MapGet(MapGet(volumes, v).chapters, c).content)

C7_Witness ==
  /\ Len(assigned) = 2
  /\ ChapterShows(1, 1, assigned[1])
  /\ ChapterShows(2, 1, assigned[2])

ImageExtensions == {"jpg", "jpeg", "png", "gif", "webp", "svg"}

\* the chapter call s has just stored holds what the processed document holds
StoredAsProcessed(s) ==
  (calls[s].pc = "store" /\ calls'[s].pc = "idle")
    => MapGet(MapGet(volumes', calls[s].vol).chapters, calls[s].idx).content
         = SelectSeq(calls[s].dom, LAMBDA e : e.tag /= "removed")

\* C9: when the img being processed has an http:// src, the https probe has
\* succeeded and the download of the https URL succeeds, the img is
\* rewritten to the path of the next generated filename (numbered with the
\* count of images registered so far), exactly one asset is registered, for
\* that src, and the counter advances by one; the chapter is then stored
\* with the rewritten img.
C9_HttpsUpgradeRegistersOne ==
  [][\A s \in CallSlots :
       /\ (/\ calls[s].pc = "download"
           /\ calls[s].response.status = "ok"
           /\ calls[s].dom[calls[s].pos].src.scheme = "http"
           /\ calls[s].finalUrl = HttpsUpgrade(calls[s].dom[calls[s].pos].src)
           /\ calls'[s] /= calls[s])
          => \E ext \in ImageExtensions :
               LET file == ImageFile(MapSize(images), ext)
               IN /\ calls'[s].dom[calls[s].pos] = Img(LocalSrc(file))
                  /\ images' = Append(images,
                       [k |-> file,
                        v |-> [extension |-> ext,
                               originalUrl |-> calls[s].dom[calls[s].pos].src]])
                  /\ calls'[s].imageCounter = calls[s].imageCounter + 1
       /\ StoredAsProcessed(s)
    ]_vars

C9_Witness ==
  \E s \in CallSlots :
    /\ calls[s].pc = "store"
    /\ calls[s].finalUrl = HttpsUpgrade(HttpA)
    /\ calls[s].dom = <<Img(LocalSrc(ImageFile(1, "png")))>>
    /\ MapSize(images) = 2
    /\ images[2].v.originalUrl = HttpA

\* no stored html chapter holds an img with an external src
NoExternalImgStored ==
  \A v \in VolIds :
    MapHas(volumes, v) =>
      \A i \in 1..Len(MapGet(volumes, v).chapters) :
        LET ch == MapGet(volumes, v).chapters[i].v
        IN ch.type = "html" =>
             \A e \in Range(ch.content) : ~(e.tag = "img" /\ IsExternal(e.src))

\* C10: when the download of an external img fails (a response that is not
\* ok or a rejection; for an http src after the https attempt), the call
\* goes on without raising, the img is removed, nothing is registered and
\* the numbering stays; no stored chapter keeps an external img.
C10_FailedImageDropped ==
  /\ []NoExternalImgStored
  /\ [][\A s \in CallSlots :
          /\ (/\ calls[s].pc = "download"
              /\ calls[s].response.status \in {"notok", "throw"}
              /\ calls'[s] /= calls[s])
             => /\ calls'[s].pc \in {"probe", "download", "store"}
                /\ calls'[s].dom[calls[s].pos] = Removed
                /\ images' = images
                /\ assigned' = assigned
                /\ calls'[s].imageCounter = calls[s].imageCounter
          /\ StoredAsProcessed(s)
       ]_vars

C10_Witness ==
  \E s \in CallSlots :
    /\ calls[s].pc = "store"
    /\ calls[s].dom = <<Removed>>
    /\ calls[s].finalUrl = HttpA
    /\ images = <<>>

\* C11: image assets are deduplicated: however many img elements carry the
\* same remote URL, in one chapter or across addChapter calls, at most one
\* asset is registered for that URL (so that all of them can point to the one
\* generated filename).
C11_OneAssetPerUrl ==
  \A i, j \in 1..Len(images) :
    images[i].v.originalUrl = images[j].v.originalUrl => i = j

\* C12: cover(url) and addCSSMap with a URL entry raise to their caller when
\* the fetch returns a non-success response or is rejected; the failed call
\* neither completes normally nor registers the cover or the stylesheet file.
C12_DeclaredFetchFailureRaises ==
  /\ [](lastCall.op \in {"cover", "addCSSMap"} /\ lastCall.fetch /= "ok"
          => lastCall.result = "raised")
  /\ [][lastCall' /= lastCall /\ lastCall'.op \in {"cover", "addCSSMap"}
          /\ lastCall'.fetch /= "ok"
        => UNCHANGED <<coverBuffer, coverExtension, cssMap>>]_vars

C12_Witness ==
  /\ lastCall = [op |-> "cover", fetch |-> "notok", result |-> "raised"]
  /\ ~HasCover
  /\ cssPathMapping /= <<>>
  /\ cssMap = <<>>

\* C13: when addCSS is called for an index that is already registered, the
\* call completes without error if its path hint equals the registered one
\* and raises a conflict error if the hints differ.
C13_SecondAddCSS ==
  [][lastCall' /= lastCall /\ lastCall'.op = "addCSS" /\ MapHas(cssFiles, lastCall'.idx)
       => IF MapGet(cssFiles, lastCall'.idx).mappath = lastCall'.mappath
            THEN lastCall'.result = "returned"
            ELSE lastCall'.result = "raised"]_vars

\* the file name under Styles/ of an indexed stylesheet
IndexedOutput(idx) == "style" \o ToString(idx) \o ".css"
\* the file name under Styles/ the reverse mapping gives an original map path
MappedOutput(original) == PathStr([MapGet(cssPathMapping, original) EXCEPT !.dir = ""])

\* C15: the output paths under Styles/ of all registered stylesheets, styleN.css
\* for each indexed stylesheet and the final path of each distinct original
\* map path, are pairwise distinct.
C15_StylesheetPathsDistinct ==
  /\ \A i, j \in 1..Len(cssPathMapping) :
       i /= j => MappedOutput(cssPathMapping[i].k) /= MappedOutput(cssPathMapping[j].k)
  /\ \A i \in 1..Len(cssFiles), j \in 1..Len(cssPathMapping) :
       IndexedOutput(cssFiles[i].k) /= MappedOutput(cssPathMapping[j].k)

\* index c is taken by an indexed stylesheet or by a stylesheet-map file
IndexInUse(c) == MapHas(cssFiles, c) \/ MapHas(cssMap, IndexedPath("", c))

\* a stylesheet link that carries an href
IsHrefLink(e) == e.tag = "link" /\ e.href /= NoPath

\* C14: an addCSSMap entry whose path without a leading "Styles/" is
\* styleN.css gets the output path styleK.css, K the lowest integer >= 1000
\* used neither by an indexed stylesheet nor by a map entry at that moment,
\* and an Html chapter added afterwards has every link to the original path
\* rewritten to that output path.
C14_IndexedMapPathReassigned ==
  [][/\ \A i \in 1..Len(cssPathMapping') :
          LET original == cssPathMapping'[i].k
              final == cssPathMapping'[i].v
          IN (/\ original.indexed
              /\ (MapHas(cssPathMapping, original) => MapGet(cssPathMapping, original) /= final))
             => /\ final.indexed /\ final.dir = "../Styles/"
                /\ final.n >= CssRenameStart
                /\ ~IndexInUse(final.n)
                /\ \A d \in CssRenameStart..(final.n - 1) : IndexInUse(d)
     /\ \A s \in CallSlots :
          calls[s].pc = "idle" /\ calls'[s].pc = "css"
            => \A p \in 1..Len(calls'[s].content) :
                 LET e == calls'[s].content[p]
                 IN (IsHrefLink(e) /\ e.href.indexed /\ MapHas(cssPathMapping, e.href))
                      => calls'[s].dom[p] = Link(MapGet(cssPathMapping, e.href))]_vars

C14_Witness ==
  \E s \in CallSlots :
    /\ calls[s].pc = "css"
    /\ calls[s].content[1] = Link(IndexedPath("", 1))
    /\ calls[s].dom[1] = Link(IndexedPath("../Styles/", CssRenameStart + 1))
    /\ MapHas(cssFiles, CssRenameStart)

\* the content the claim expects addChapter to store: unregistered links
\* dropped, registered ones pointing to their final path
LinksResolved(content) ==
  LET kept == SelectSeq(content,
                LAMBDA e : ~(IsHrefLink(e) /\ ~MapHas(cssPathMapping, e.href)))
  IN [p \in 1..Len(kept) |->
        IF IsHrefLink(kept[p]) THEN Link(MapGet(cssPathMapping, kept[p].href)) ELSE kept[p]]

\* the final paths recorded in the reverse mapping
FinalPaths == {cssPathMapping[i].v : i \in 1..Len(cssPathMapping)}

\* C16: when addChapter stores an Html chapter, every stylesheet link with an
\* href in the stored content points to a final path of the reverse mapping:
\* links to registered paths are rewritten, links to unregistered paths are
\* gone, and the chapter is stored all the same.
C16_StoredLinksResolved ==
  [][\A s \in CallSlots :
       calls[s].pc = "store" /\ calls'[s].pc = "idle"
         => LET stored == MapGet(MapGet(volumes', calls[s].vol).chapters, calls[s].idx).content
            IN /\ \A p \in 1..Len(stored) : IsHrefLink(stored[p]) => stored[p].href \in FinalPaths
               /\ stored = LinksResolved(calls[s].content)]_vars

C16_Witness ==
  /\ MapHas(volumes, 1)
  /\ MapHas(MapGet(volumes, 1).chapters, 1)
  /\ MapGet(MapGet(volumes, 1).chapters, 1).content
       = <<Link(NamedPath("../Styles/", "main.css"))>>
  /\ Quiet

\* the chapters stored in the volumes
StoredChapters ==
  UNION { {volumes[v].v.chapters[c].v : c \in 1..Len(volumes[v].v.chapters)} :
          v \in 1..Len(volumes) }

\* the rendered chapter starts its body with the generated heading
HeadingGenerated(chapter) ==
  LET body == GenerateChapterXhtml(chapter).body
  IN body /= <<>> /\ body[1] = GeneratedHeading

\* C17: for an Html chapter, whether its content parses as strict XML or only
\* as lenient HTML, the renderer inserts the generated heading always when
\* insertTitle is true, never when it is false, and when it is undefined only
\* if the body has no heading element.
C17_TitleInsertionModes ==
  \A chapter \in StoredChapters :
    chapter.type = "html" =>
      /\ chapter.insertTitle = Always => HeadingGenerated(chapter)
      /\ chapter.insertTitle = Never => ~HeadingGenerated(chapter)
      /\ chapter.insertTitle = Undefined /\ HeadingGenerated(chapter)
           => ~ExistingHeading(chapter.content)

\* C18: for a chapter of any kind and any cssIdxs, the rendered chapter links
\* to the global stylesheet style0.css only when its useGlobalCSS flag is true.
C18_GlobalCssOnlyWhenFlagged ==
  \A chapter \in StoredChapters :
    0 \in Range(GenerateChapterXhtml(chapter).links) => chapter.useGlobalCSS

\* C19: in every state reached by setInfo calls the identifier entry exists
\* with a non-empty value, and the package document rendered from the state
\* carries an identifier element with non-empty text.
C19_IdentifierNeverEmpty ==
  /\ MapHas(metadata, "identifier")
  /\ MapGet(metadata, "identifier").value /= ""
  /\ \E i \in 1..Len(OpfMetadata) :
       OpfMetadata[i].tag = "dc:identifier" /\ OpfMetadata[i].text /= ""

\* the tags of the elements rendered for metadata keys, in document order
DcTags(rendered) ==
  LET dc == SelectSeq(rendered, LAMBDA e : e.tag /= "meta")
  IN [i \in 1..Len(dc) |-> dc[i].tag]

\* C20: a setInfo call leaves exactly one rendered element for its key, with
\* the value and the attributes of that call; for a key that was set before,
\* the order of the elements stays the order in which the keys were first
\* registered, and a new key's element comes last.
C20_SetInfoUpsert ==
  [][lastCall'.op = "setInfo" /\ (lastCall' /= lastCall \/ metadata' /= metadata)
       => LET tag == "dc:" \o lastCall'.key
              old == OpfMetadata
              new == OpfMetadata'
              at == {i \in 1..Len(new) : new[i].tag = tag}
          IN /\ Cardinality(at) = 1
             /\ \A i \in at : new[i].text = lastCall'.value /\ new[i].attrs = lastCall'.options
             /\ IF MapHas(metadata, lastCall'.key)
                  THEN /\ DcTags(new) = DcTags(old)
                       /\ \A i \in 1..Len(new) : i \notin at => new[i] = old[i]
                  ELSE DcTags(new) = Append(DcTags(old), tag)]_vars

C20_Witness ==
  /\ lastCall = [op |-> "setInfo", key |-> "title", value |-> "v2",
                 options |-> <<[k |-> "id", v |-> "BookId"]>>]
  /\ MapHas(metadata, "subject")
  /\ Len(OpfMetadata) >= 6
  /\ OpfMetadata[4].tag = "dc:title" /\ OpfMetadata[4].text = "v2"
  /\ OpfMetadata[6].tag = "dc:subject"

\* C21: in the package document no two manifest items have the same id,
\* whatever images, indexed stylesheets, stylesheet-map paths, volumes and
\* chapters are registered.
C21_ManifestIdsUnique ==
  \A i, j \in 1..Len(OpfManifest) :
    OpfManifest[i].id = OpfManifest[j].id => i = j

\* the file entries of an archive under OEBPS/ other than the package
\* document: directories are not compressed, the mimetype marker is stored
WrittenFiles(a) ==
  {a[i].k : i \in {j \in 1..Len(a) : a[j].v.compression = "DEFLATE"}}
    \ {"META-INF/container.xml", "OEBPS/content.opf"}

\* the hrefs of the manifest of the package document in an archive, resolved
\* against OEBPS/
ManifestFiles(a) ==
  LET manifest == MapGet(a, "OEBPS/content.opf").content.manifest
  IN {"OEBPS/" \o manifest[i].href : i \in 1..Len(manifest)}

TocTargets(doc) == {doc.tokens[i].href : i \in 1..Len(doc.tokens)} \ {""}

\* C25: every link target of toc.ncx and of nav.xhtml is the href of a
\* manifest item, volumes without chapters included, under every
\* combination of volume options.
C25_TocTargetsInManifest ==
  TocTargets(GenerateTocNcx) \cup TocTargets(GenerateNavXhtml)
    \subseteq {OpfManifest[i].href : i \in 1..Len(OpfManifest)}

\* C26: save() returns an archive without raising in every state that
\* successful registration calls reach, a volume without chapters included.
C26_SaveNeverRaises == saveState /= "threw"

\* C27: the dtb:uid of toc.ncx is the text of the identifier element of the
\* package document rendered from the same state, in every metadata state
\* setInfo reaches.
C27_UidIsIdentifier ==
  \A fresh \in RandomUUIDs :
    \E i \in 1..Len(OpfMetadata) :
      OpfMetadata[i].tag = "dc:identifier" /\ OpfMetadata[i].text = NcxUid(fresh)

\* C24: whenever no addCSSMap call is waiting for its fetch, also after one
\* that raised because its fetch failed, every final path of the reverse
\* mapping has a stored stylesheet content.
C24_MappedPathsHaveContent ==
  imports = <<>>
    => \A i \in 1..Len(cssPathMapping) :
         MapHas(cssMap, [cssPathMapping[i].v EXCEPT !.dir = ""])

\* C28: two addCSSMap calls waiting for their fetch at the same time, each
\* for a URL entry with a path of the form styleN.css, have chosen distinct
\* output paths, so that the content of neither replaces the other's.
C28_ConcurrentImportsDistinct ==
  \A i, j \in 1..Len(imports) :
    (i /= j /\ imports[i].indexed /\ imports[j].indexed) => imports[i] /= imports[j]

\* archive a holds the entry name with this content
SavedAs(a, name, content) == MapHas(a, name) /\ MapGet(a, name).content = content

\* C23: the documents of the archive a save() call returns are all rendered
\* from the one model state the call started in, also while an addChapter
\* call is in flight: the package document, both tables of contents and
\* every chapter file are the renderings of that state, and the call leaves
\* the model state and the calls in flight as they were.
C23_SaveRendersOneState ==
  [][(nSaves' /= nSaves /\ saveState' = "ok")
       => /\ UNCHANGED <<metadata, volumes, images, cssFiles, cssMap, cssPathMapping,
                         coverBuffer, coverExtension, calls, assigned, imports>>
          /\ SavedAs(archive', "OEBPS/content.opf", GenerateContentOpf)
          /\ SavedAs(archive', "OEBPS/toc.ncx", GenerateTocNcx.tokens)
          /\ SavedAs(archive', "OEBPS/nav.xhtml", GenerateNavXhtml.tokens)
          /\ \A i \in 1..Len(volumes) :
               \A j \in 1..Len(volumes[i].v.chapters) :
                 SavedAs(archive',
                         "OEBPS/" \o ChapterHref(volumes[i].k, volumes[i].v.chapters[j].k),
                         GenerateChapterXhtml(volumes[i].v.chapters[j].v))]_vars

\* a save() that completed after the addChapter call in flight had registered
\* its image and before it stored its chapter
C23_Witness ==
  /\ saveState = "ok"
  /\ Len(assigned) = 1
  /\ MapHas(archive, "OEBPS/Images/" \o FileName(assigned[1]))
  /\ \E s \in CallSlots :
       /\ calls[s].pc = "store"
       /\ calls[s].dom = <<Img(LocalSrc(assigned[1]))>>

====
